---- MODULE Spec2Model ----
(***************************************************************************)
(* Model of the ncloud Terraform provider's server resource lifecycle      *)
(* (Create / Read / Update / Delete), its retry wrappers, the              *)
(* waitForServerInstance poll loop, and the member-server-images data      *)
(* source read.  The vendor API is the environment: every vendor call      *)
(* answers with a nondeterministically chosen (response, error) pair.      *)
(***************************************************************************)
EXTENDS Integers, Sequences, FiniteSets, TLC

\* ---------------------------------------------------------------- bounds
\* number of closure invocations resource.Retry is followed through
MaxAttempts == 3
\* number of GetServerInstanceList polls kept apart in the call log
MaxPolls == 2
\* longest vendor image list given to the data source
MaxImages == 2
\* longest member_server_image_name_regex, in tokens
MaxRegexLen == 2
\* server names are up to MaxPad letters followed by up to MaxTail
\* arbitrary characters
MaxPad == 29
MaxTail == 3

\* ------------------------------------------------------------- constants
\* capacity of the channel c1
ChanCapZero == 1 - 1
ChanCap == 1

Ids == {"101", "102"}
Statuses == {"INIT", "RUN", "NSTOP"}

ApiErrorUnknown == "ApiErrorUnknown"
ApiErrorAuthorityParameter == "ApiErrorAuthorityParameter"
ApiErrorServerObjectInOperation == "ApiErrorServerObjectInOperation"
ApiErrorServerObjectInOperation2 == "ApiErrorServerObjectInOperation2"
ApiErrorObjectInOperation == "ApiErrorObjectInOperation"
ApiErrorPreviousServersHaveNotBeenEntirelyTerminated == "ApiErrorPreviousServersHaveNotBeenEntirelyTerminated"
\* a return code that is on no allow-list
ApiErrorOther == "ApiErrorOther"

ErrorCodes ==
  {ApiErrorUnknown, ApiErrorAuthorityParameter, ApiErrorServerObjectInOperation,
   ApiErrorServerObjectInOperation2, ApiErrorObjectInOperation,
   ApiErrorPreviousServersHaveNotBeenEntirelyTerminated, ApiErrorOther}

CreateRetryCodes ==
  {ApiErrorUnknown, ApiErrorAuthorityParameter, ApiErrorServerObjectInOperation,
   ApiErrorPreviousServersHaveNotBeenEntirelyTerminated}
UpdateRetryCodes == {ApiErrorUnknown, ApiErrorObjectInOperation, ApiErrorObjectInOperation}
TerminateRetryCodes == {ApiErrorUnknown, ApiErrorServerObjectInOperation2}

\* ---------------------------------------------------------------- values
Range(s) == {s[i] : i \in 1..Len(s)}

\* Go error values: nil, an error handed back by a vendor call, or the
\* error built by fmt.Errorf; text holds the parts the message is made of
NilErr == [kind |-> "nil", text |-> <<>>]
Pending == [kind |-> "pending", text |-> <<>>]
VendorErr(call, code) == [kind |-> "vendor", text |-> <<call, code>>]
BuildErr == [kind |-> "build", text |-> <<"parseZoneNoParameter">>]

\* a vendor response: nil, or a body with a return code and an instance list
NoResp == [present |-> FALSE, code |-> "", list |-> <<>>]
Resp(code, list) == [present |-> TRUE, code |-> code, list |-> list]

\* the instance tag lists the vendor may hold for an instance
TagLists == {<<>>, <<[tagKey |-> "env", tagValue |-> "prod"]>>}

NoInst == [present |-> FALSE, no |-> "", status |-> "", tags |-> <<>>]
Inst(no, status, tags) ==
  [present |-> TRUE, no |-> no, status |-> status, tags |-> tags]

\* what a mutating vendor call (Create / ChangeSpec / Terminate) can answer
MutatingOutcomes(call) ==
  {[resp |-> NoResp, err |-> e] : e \in {NilErr, VendorErr(call, "")}}
  \cup UNION {{[resp |-> Resp(c, <<>>), err |-> e] :
                   e \in {NilErr, VendorErr(call, c)}} : c \in ErrorCodes}
  \cup {[resp |-> Resp("0", <<i>>), err |-> NilErr] : i \in Ids}

\* what GetServerInstanceList can answer for one instance number
GetOutcomes(no) ==
  {[inst |-> NoInst, err |-> VendorErr("GetServerInstanceList", ApiErrorOther)],
   [inst |-> NoInst, err |-> NilErr]}
  \cup {[inst |-> Inst(no, s, t), err |-> NilErr] : s \in Statuses, t \in TagLists}

\* ---------------------------------------------------------------- helpers
IsRetryableErr(resp, codes) == resp.present /\ resp.code \in codes

\* resource.RetryableError / NonRetryableError: nil for a nil error
RetryableError(err) ==
  IF err = NilErr THEN [set |-> FALSE, retryable |-> FALSE, err |-> NilErr]
  ELSE [set |-> TRUE, retryable |-> TRUE, err |-> err]
NonRetryableError(err) ==
  IF err = NilErr THEN [set |-> FALSE, retryable |-> FALSE, err |-> NilErr]
  ELSE [set |-> TRUE, retryable |-> FALSE, err |-> err]

TimeoutErrorNoId(instanceId, status) ==
  [kind |-> "timeout", text |-> <<"TIMEOUT : Wait to server instance">>]
TimeoutError(instanceId, status) ==
  [kind |-> "timeout", text |-> <<"TIMEOUT : Wait to server instance", instanceId>>]

\* ------------------------------------------------------------------ state
VARIABLES
  ds,          \* data source: id, member_server_images, the output file
  op,          \* the lifecycle function the host runtime has called
  cfg,         \* configuration handed in by the host (d.HasChange, ...)
  pc,          \* position of the calling goroutine
  id,          \* d.Id()
  id0,         \* d.Id() when the call started
  attrs,       \* attributes of the resource data written by d.Set
  inst,        \* local serverInstance of resourceNcloudServerDelete
  rt,          \* resource.Retry: closure invocations so far, resultErr
  resp,        \* local resp of the retry wrappers
  err,         \* local err holding resource.Retry's return value
  calls,       \* vendor calls issued so far, in order
  result,      \* error value returned to the host (Pending until return)
  c1,          \* the channel of waitForServerInstance
  poller,      \* the goroutine started by waitForServerInstance
  timerFired,  \* time.After(DefaultCreateTimeout) has delivered
  wait,        \* arguments and return value of waitForServerInstance
  hist         \* history: what the polls have observed

vars == <<ds, op, cfg, pc, id, id0, attrs, inst, rt, resp, err, calls, result,
          c1, poller, timerFired, wait, hist>>

Ops == {"Create", "Read", "Update", "Delete", "DataRead", "Validate"}

\* sequences over S of length at most n
SeqsUpTo(S, n) == UNION {[1..k -> S] : k \in 0..n}

\* member server images as the vendor returns them
ImageNos == {"m1", "m2"}
Chars == {"a", "b"}
Names == {<<>>, <<"a">>, <<"b">>, <<"a", "b">>, <<"b", "a">>}
Images == [no : ImageNos, name : Names]

\* regular expressions: characters, ".", and the anchors "^" and "$" in
\* first and last place; the empty string is the unset attribute
Tokens == Chars \cup {".", "^", "$"}
WellFormed(r) ==
  \A i \in 1..Len(r) : /\ (r[i] = "^" => i = 1)
                        /\ (r[i] = "$" => i = Len(r))
Regexes == {r \in SeqsUpTo(Tokens, MaxRegexLen) : WellFormed(r)}

NoFile == [written |-> FALSE, path |-> "", content |-> <<>>]
NoDs == [id |-> <<>>, images |-> <<>>, file |-> NoFile]
DsCfg == [hasChange : {FALSE}, nameRegex : Regexes,
          allImages : SeqsUpTo(Images, MaxImages), outputFile : {"", "out.json"},
          serverName : {<<>>}]
ServerCfg == [hasChange : BOOLEAN, nameRegex : {<<>>},
              allImages : {<<>>}, outputFile : {""}, serverName : {<<>>}]

\* server_name values handed to validateServerName: a letter, a digit, the
\* hyphen and two characters that are neither
NameChars == {"a", "7", "-", "_", "!"}
Code(c) ==
  CASE c = "a" -> 97
    [] c = "7" -> 55
    [] c = "-" -> 45
    [] c = "_" -> 95
    [] c = "!" -> 33
Pad(k) == [i \in 1..k |-> "a"]
ServerNames ==
  {Pad(k) \o t : k \in 0..MaxPad, t \in SeqsUpTo(NameChars, MaxTail)}
ValidateCfg == [hasChange : {FALSE}, nameRegex : {<<>>}, allImages : {<<>>},
                outputFile : {""}, serverName : ServerNames]

\* the attributes of the server schema that the model follows
NoAttrs == [server_instance_no |-> "", server_instance_status |-> "",
            tag_list |-> <<>>]
\* tag_list as the configuration may give it
ConfigTagLists == {<<>>, <<[tag_key |-> "team", tag_value |-> "dev"]>>}
NoWait == [id |-> "", status |-> "", res |-> Pending]
IdlePoller == [pc |-> "none", val |-> Pending, polls |-> 0, sent |-> 0]
NoHist == [sawTarget |-> FALSE, sawNil |-> FALSE, pollErr |-> NilErr,
           callsAtPollErr |-> <<>>, last |-> [resp |-> NoResp, err |-> NilErr],
           read |-> NoInst, attrs0 |-> NoAttrs]

EntryPc(o) ==
  CASE o = "Create" -> "create_build"
    [] o = "Read" -> "read"
    [] o = "Update" -> "update_start"
    [] o = "Delete" -> "delete_fetch"
    [] o = "DataRead" -> "ds_read"
    [] o = "Validate" -> "validate"

Init ==
  /\ op \in Ops
  /\ cfg \in (CASE op = "DataRead" -> DsCfg
                 [] op = "Validate" -> ValidateCfg
                 [] OTHER -> ServerCfg)
  /\ ds = NoDs
  /\ pc = EntryPc(op)
  /\ id0 \in (IF op \in {"Create", "DataRead", "Validate"} THEN {""} ELSE Ids)
  /\ id = id0
  /\ attrs \in (IF op \in {"Create", "DataRead", "Validate"}
                THEN {NoAttrs}
                ELSE {[server_instance_no |-> id0,
                       server_instance_status |-> "RUN",
                       tag_list |-> t] : t \in ConfigTagLists})
  /\ inst = NoInst
  /\ rt = [attempts |-> 0, lastErr |-> NilErr]
  /\ resp = NoResp
  /\ err = NilErr
  /\ calls = <<>>
  /\ result = Pending
  /\ c1 = <<>>
  /\ poller = IdlePoller
  /\ timerFired = FALSE
  /\ wait = NoWait
  /\ hist = [NoHist EXCEPT !.attrs0 = attrs]

\* return of the lifecycle function to the host
Return(e) == /\ result' = e
             /\ pc' = "done"

\* --------------------------------------------------------- resource.Retry
\* One closure invocation seen from resource.Retry: a nil RetryError ends
\* the retry with nil, a non-retryable one ends it with its error, a
\* retryable one is remembered (resultErr) and the closure is called again.
Retry(rerr, afterPc) ==
  IF ~rerr.set
  THEN /\ err' = NilErr
       /\ pc' = afterPc
       /\ rt' = rt
  ELSE IF ~rerr.retryable
  THEN /\ err' = rerr.err
       /\ pc' = afterPc
       /\ rt' = rt
  ELSE /\ rt' = [attempts |-> rt.attempts + 1, lastErr |-> rerr.err]
       /\ UNCHANGED <<pc, err>>

RetryPcs == {"create_retry", "update_retry", "terminate_retry"}

AfterPc(p) ==
  CASE p = "create_retry" -> "create_after"
    [] p = "update_retry" -> "update_after"
    [] p = "terminate_retry" -> "terminate_after"

\* the retry window closes after a retryable answer: resource.Retry
\* returns the last retryable error
RetryTimeout ==
  /\ pc \in RetryPcs
  /\ rt.attempts >= 1
  /\ err' = rt.lastErr
  /\ pc' = AfterPc(pc)
  /\ UNCHANGED <<ds, op, cfg, id, id0, attrs, inst, rt, resp, calls, result,
                 c1, poller, timerFired, wait, hist>>

\* ------------------------------------------- resourceNcloudServerCreate
\* buildCreateServerInstanceReqParams: fails when the zone cannot be parsed
CreateBuild ==
  /\ pc = "create_build"
  /\ \/ Return(BuildErr)
     \/ /\ pc' = "create_retry"
        /\ UNCHANGED result
  /\ UNCHANGED <<ds, op, cfg, id, id0, attrs, inst, rt, resp, err, calls,
                 c1, poller, timerFired, wait, hist>>

\* the closure handed to resource.Retry in resourceNcloudServerCreate
CreateRetryFnAlways(o) == RetryableError(o.err)
CreateRetryFnNever(o) == NonRetryableError(o.err)
CreateRetryFn(o) ==
  IF o.resp.present /\ IsRetryableErr(o.resp, CreateRetryCodes)
  THEN RetryableError(o.err)
  ELSE NonRetryableError(o.err)

CreateAttempt ==
  /\ pc = "create_retry"
  /\ rt.attempts < MaxAttempts
  /\ \E o \in MutatingOutcomes("CreateServerInstances") :
       /\ resp' = o.resp
       /\ calls' = Append(calls, "CreateServerInstances")
       /\ hist' = [hist EXCEPT !.last = [resp |-> o.resp, err |-> o.err]]
       /\ Retry(CreateRetryFn(o), "create_after")
  /\ UNCHANGED <<ds, op, cfg, id, id0, attrs, inst, result,
                 c1, poller, timerFired, wait>>

\* lines after the retry: error check, resp.ServerInstanceList[0], SetId
\* and the call of waitForServerInstance(.., "RUN")
CreateAfterNoSetId ==
  /\ pc = "create_after"
  /\ IF err # NilErr
     THEN /\ Return(err)
          /\ UNCHANGED wait
     ELSE IF ~resp.present \/ Len(resp.list) = 0
     THEN /\ pc' = "panic"
          /\ UNCHANGED <<wait, result>>
     ELSE /\ wait' = [id |-> resp.list[1], status |-> "RUN", res |-> Pending]
          /\ pc' = "wait_start"
          /\ UNCHANGED result
  /\ UNCHANGED <<ds, op, cfg, id, id0, attrs, inst, rt, resp, err, calls,
                 c1, poller, timerFired, hist>>
CreateAfter ==
  /\ pc = "create_after"
  /\ IF err # NilErr
     THEN /\ Return(err)
          /\ UNCHANGED <<id, wait>>
     ELSE IF ~resp.present \/ Len(resp.list) = 0
     THEN /\ pc' = "panic"
          /\ UNCHANGED <<id, wait, result>>
     ELSE /\ id' = resp.list[1]
          /\ wait' = [id |-> resp.list[1], status |-> "RUN", res |-> Pending]
          /\ pc' = "wait_start"
          /\ UNCHANGED result
  /\ UNCHANGED <<ds, op, cfg, id0, attrs, inst, rt, resp, err, calls,
                 c1, poller, timerFired, hist>>

\* ------------------------------------------------ waitForServerInstance
\* c1 := make(chan error, 1); go func() {...}(); select with time.After
WaitStart ==
  /\ pc = "wait_start"
  /\ c1' = <<>>
  /\ poller' = [pc |-> "poll", val |-> Pending, polls |-> 0, sent |-> 0]
  /\ timerFired' = FALSE
  /\ pc' = "wait_select"
  /\ UNCHANGED <<ds, op, cfg, id, id0, attrs, inst, rt, resp, err, calls, result,
                 wait, hist>>

\* what the poll loop does with one answer of getServerInstance
PollNextRetryErr(o, status) ==
  IF o.err = NilErr /\ (~o.inst.present \/ o.inst.status = status)
  THEN [pc |-> "send", val |-> NilErr]
  ELSE [pc |-> "sleep", val |-> Pending]
PollNext(o, status) ==
  IF o.err # NilErr THEN [pc |-> "send", val |-> o.err]
  ELSE IF ~o.inst.present \/ o.inst.status = status
  THEN [pc |-> "send", val |-> NilErr]
  ELSE [pc |-> "sleep", val |-> Pending]

\* the call log keeps the first MaxPolls polls of a wait apart
PollLog(log, polls) ==
  IF polls < MaxPolls THEN Append(log, "GetServerInstanceList") ELSE log

PollerPoll ==
  /\ poller.pc = "poll"
  /\ \E o \in GetOutcomes(wait.id) :
       LET n == PollNext(o, wait.status)
           log == PollLog(calls, poller.polls) IN
       /\ poller' = [poller EXCEPT !.pc = n.pc, !.val = n.val,
                        !.polls = IF @ < MaxPolls THEN @ + 1 ELSE @]
       /\ calls' = log
       /\ hist' = [hist EXCEPT
            !.sawTarget = @ \/ (o.inst.present /\ o.inst.status = wait.status),
            !.sawNil = @ \/ (o.err = NilErr /\ ~o.inst.present),
            !.pollErr = IF o.err # NilErr THEN o.err ELSE @,
            !.callsAtPollErr = IF o.err # NilErr THEN log ELSE @]
  /\ UNCHANGED <<ds, op, cfg, pc, id, id0, attrs, inst, rt, resp, err, result,
                 c1, timerFired, wait>>

\* c1 <- val; return
PollerSend ==
  /\ poller.pc = "send"
  /\ Len(c1) < ChanCap
  /\ c1' = Append(c1, poller.val)
  /\ poller' = [poller EXCEPT !.pc = "done", !.sent = @ + 1]
  /\ UNCHANGED <<ds, op, cfg, pc, id, id0, attrs, inst, rt, resp, err, calls,
                 result, timerFired, wait, hist>>

\* time.Sleep(time.Second * 1) is over
PollerWake ==
  /\ poller.pc = "sleep"
  /\ poller' = [poller EXCEPT !.pc = "poll"]
  /\ UNCHANGED <<ds, op, cfg, pc, id, id0, attrs, inst, rt, resp, err, calls,
                 result, c1, timerFired, wait, hist>>

\* DefaultCreateTimeout elapses
TimerFire ==
  /\ pc = "wait_select"
  /\ ~timerFired
  /\ timerFired' = TRUE
  /\ UNCHANGED <<ds, op, cfg, pc, id, id0, attrs, inst, rt, resp, err, calls,
                 result, c1, poller, wait, hist>>

\* case res := <-c1
WaitReceive ==
  /\ pc = "wait_select"
  /\ Len(c1) > 0
  /\ wait' = [wait EXCEPT !.res = Head(c1)]
  /\ c1' = Tail(c1)
  /\ pc' = "waited"
  /\ UNCHANGED <<ds, op, cfg, id, id0, attrs, inst, rt, resp, err, calls, result,
                 poller, timerFired, hist>>

\* case <-time.After(DefaultCreateTimeout)
WaitTimeoutNever == FALSE /\ UNCHANGED vars
WaitTimeout ==
  /\ pc = "wait_select"
  /\ timerFired
  /\ wait' = [wait EXCEPT !.res = TimeoutError(wait.id, wait.status)]
  /\ pc' = "waited"
  /\ UNCHANGED <<ds, op, cfg, id, id0, attrs, inst, rt, resp, err, calls, result,
                 c1, poller, timerFired, hist>>

\* resourceNcloudServerCreate after waitForServerInstance returned
CreateWaited ==
  /\ pc = "waited"
  /\ op = "Create"
  /\ IF wait.res # NilErr
     THEN Return(wait.res)
     ELSE /\ pc' = "read"
          /\ UNCHANGED result
  /\ UNCHANGED <<ds, op, cfg, id, id0, attrs, inst, rt, resp, err, calls,
                 c1, poller, timerFired, wait, hist>>

\* --------------------------------------------- resourceNcloudServerRead
\* d.Set: a key the schema does not declare is refused and nothing is
\* stored (the error d.Set returns is dropped by the caller)
Set(a, key, v) == IF key \in DOMAIN a THEN [a EXCEPT ![key] = v] ELSE a

flattenInstanceTagList(tags) ==
  [i \in 1..Len(tags) |-> [tag_key |-> tags[i].tagKey,
                           tag_value |-> tags[i].tagValue]]

\* the d.Set calls of resourceNcloudServerRead for a fetched instance
ReadSet(a, i) ==
  LET a1 == Set(a, "server_instance_no", i.no)
      a2 == Set(a1, "server_instance_status", i.status)
  IN IF Len(i.tags) # 0
     THEN Set(a2, "load_balancer_rule_list", flattenInstanceTagList(i.tags))
     ELSE a2

\* if instance != nil { ... }
ReadAttrsAlways(a, i) == ReadSet(a, i)
ReadAttrs(a, i) == IF i.present THEN ReadSet(a, i) ELSE a

resourceNcloudServerRead ==
  /\ pc = "read"
  /\ \E o \in GetOutcomes(id) :
       /\ calls' = Append(calls, "GetServerInstanceList")
       /\ hist' = [hist EXCEPT !.last = [resp |-> NoResp, err |-> o.err],
                               !.read = o.inst]
       /\ IF o.err # NilErr
          THEN /\ Return(o.err)
               /\ UNCHANGED attrs
          ELSE /\ Return(NilErr)
               /\ attrs' = ReadAttrs(attrs, o.inst)
  /\ UNCHANGED <<ds, op, cfg, id, id0, inst, rt, resp, err,
                 c1, poller, timerFired, wait>>

\* ------------------------------------------- resourceNcloudServerUpdate
UpdateStartAlways ==
  /\ pc = "update_start"
  /\ pc' = "update_retry"
  /\ UNCHANGED <<ds, op, cfg, id, id0, attrs, inst, rt, resp, err, calls, result,
                 c1, poller, timerFired, wait, hist>>
\* if d.HasChange("server_product_code") { ... }
UpdateStart ==
  /\ pc = "update_start"
  /\ pc' = IF cfg.hasChange THEN "update_retry" ELSE "read"
  /\ UNCHANGED <<ds, op, cfg, id, id0, attrs, inst, rt, resp, err, calls, result,
                 c1, poller, timerFired, wait, hist>>

\* the closure handed to resource.Retry in resourceNcloudServerUpdate
UpdateRetryFn(o) ==
  IF o.resp.present /\ IsRetryableErr(o.resp, UpdateRetryCodes)
  THEN RetryableError(o.err)
  ELSE NonRetryableError(o.err)

UpdateAttempt ==
  /\ pc = "update_retry"
  /\ rt.attempts < MaxAttempts
  /\ \E o \in MutatingOutcomes("ChangeServerInstanceSpec") :
       /\ resp' = o.resp
       /\ calls' = Append(calls, "ChangeServerInstanceSpec")
       /\ hist' = [hist EXCEPT !.last = [resp |-> o.resp, err |-> o.err]]
       /\ Retry(UpdateRetryFn(o), "update_after")
  /\ UNCHANGED <<ds, op, cfg, id, id0, attrs, inst, result,
                 c1, poller, timerFired, wait>>

UpdateAfter ==
  /\ pc = "update_after"
  /\ IF err # NilErr
     THEN Return(err)
     ELSE /\ pc' = "read"
          /\ UNCHANGED result
  /\ UNCHANGED <<ds, op, cfg, id, id0, attrs, inst, rt, resp, err, calls,
                 c1, poller, timerFired, wait, hist>>

\* ------------------------------------------- resourceNcloudServerDelete
\* serverInstance, err := getServerInstance(client, d.Id()) and the test
\* that decides whether the instance has to be stopped first
NeedsStopAlways(i) == TRUE
NeedsStop(i) == ~i.present \/ i.status # "NSTOP"

DeleteFetch ==
  /\ pc = "delete_fetch"
  /\ \E o \in GetOutcomes(id) :
       /\ calls' = Append(calls, "GetServerInstanceList")
       /\ hist' = [hist EXCEPT !.last = [resp |-> NoResp, err |-> o.err]]
       /\ IF o.err # NilErr
          THEN /\ Return(o.err)
               /\ UNCHANGED inst
          ELSE /\ inst' = o.inst
               /\ pc' = IF NeedsStop(o.inst)
                        THEN "delete_stop" ELSE "delete_detach"
               /\ UNCHANGED result
  /\ UNCHANGED <<ds, op, cfg, id, id0, attrs, rt, resp, err,
                 c1, poller, timerFired, wait>>

\* stopServerInstance, then the call of waitForServerInstance whose
\* argument dereferences serverInstance
DeleteStop ==
  /\ pc = "delete_stop"
  /\ \E e \in {NilErr, VendorErr("StopServerInstances", ApiErrorOther)} :
       /\ calls' = Append(calls, "StopServerInstances")
       /\ hist' = [hist EXCEPT !.last = [resp |-> NoResp, err |-> e]]
       /\ IF e # NilErr
          THEN /\ Return(e)
               /\ UNCHANGED wait
          ELSE IF ~inst.present
          THEN /\ pc' = "panic"
               /\ UNCHANGED <<wait, result>>
          ELSE /\ wait' = [id |-> inst.no, status |-> "NSTOP", res |-> Pending]
               /\ pc' = "wait_start"
               /\ UNCHANGED result
  /\ UNCHANGED <<ds, op, cfg, id, id0, attrs, inst, rt, resp, err,
                 c1, poller, timerFired>>

DeleteWaited ==
  /\ pc = "waited"
  /\ op = "Delete"
  /\ IF wait.res # NilErr
     THEN Return(wait.res)
     ELSE /\ pc' = "delete_detach"
          /\ UNCHANGED result
  /\ UNCHANGED <<ds, op, cfg, id, id0, attrs, inst, rt, resp, err, calls,
                 c1, poller, timerFired, wait, hist>>

\* detachBlockStorageByServerInstanceNo(d, client, d.Id())
DeleteDetach ==
  /\ pc = "delete_detach"
  /\ \E e \in {NilErr, VendorErr("DetachBlockStorageInstances", ApiErrorOther)} :
       /\ calls' = Append(calls, "DetachBlockStorageInstances")
       /\ hist' = [hist EXCEPT !.last = [resp |-> NoResp, err |-> e]]
       /\ IF e # NilErr
          THEN Return(e)
          ELSE /\ pc' = "terminate_retry"
               /\ UNCHANGED result
  /\ UNCHANGED <<ds, op, cfg, id, id0, attrs, inst, rt, resp, err,
                 c1, poller, timerFired, wait>>

\* the closure handed to resource.Retry in terminateServerInstance
TerminateRetryFn(o) ==
  IF o.err = NilErr /\ ~o.resp.present
  THEN NonRetryableError(o.err)
  ELSE IF o.resp.present /\ IsRetryableErr(o.resp, TerminateRetryCodes)
  THEN RetryableError(o.err)
  ELSE NonRetryableError(o.err)

TerminateAttempt ==
  /\ pc = "terminate_retry"
  /\ rt.attempts < MaxAttempts
  /\ \E o \in MutatingOutcomes("TerminateServerInstances") :
       /\ resp' = o.resp
       /\ calls' = Append(calls, "TerminateServerInstances")
       /\ hist' = [hist EXCEPT !.last = [resp |-> o.resp, err |-> o.err]]
       /\ Retry(TerminateRetryFn(o), "terminate_after")
  /\ UNCHANGED <<ds, op, cfg, id, id0, attrs, inst, result,
                 c1, poller, timerFired, wait>>

\* terminateServerInstance returns; Delete clears the id on success
TerminateAfterAlwaysClear ==
  /\ pc = "terminate_after"
  /\ id' = ""
  /\ Return(err)
  /\ UNCHANGED <<ds, op, cfg, id0, attrs, inst, rt, resp, err, calls,
                 c1, poller, timerFired, wait, hist>>
TerminateAfter ==
  /\ pc = "terminate_after"
  /\ IF err # NilErr
     THEN /\ Return(err)
          /\ UNCHANGED id
     ELSE /\ id' = ""
          /\ Return(NilErr)
  /\ UNCHANGED <<ds, op, cfg, id0, attrs, inst, rt, resp, err, calls,
                 c1, poller, timerFired, wait, hist>>

\* ------------------------------- dataSourceNcloudMemberServerImagesRead
\* regexp.MatchString: an unanchored search unless the pattern is anchored
HasPre(r) == Len(r) > 0 /\ r[1] = "^"
HasPost(r) == Len(r) > 0 /\ r[Len(r)] = "$"
Body(r) == SubSeq(r, IF HasPre(r) THEN 2 ELSE 1,
                     IF HasPost(r) THEN Len(r) - 1 ELSE Len(r))
MatchAt(b, s, i) ==
  /\ i + Len(b) - 1 <= Len(s)
  /\ \A k \in 1..Len(b) : b[k] = "." \/ b[k] = s[i + k - 1]
MatchString(r, s) ==
  \E i \in 1..(Len(s) + 1) :
    /\ HasPre(r) => i = 1
    /\ HasPost(r) => i + Len(Body(r)) - 1 = Len(s)
    /\ MatchAt(Body(r), s, i)

\* the loop that appends every image whose name matches
RECURSIVE FilterLoopPrepend(_, _, _, _)
FilterLoopPrepend(r, all, i, acc) ==
  IF i > Len(all) THEN acc
  ELSE FilterLoopPrepend(r, all, i + 1,
         IF MatchString(r, all[i].name) THEN <<all[i]>> \o acc ELSE acc)
RECURSIVE FilterLoop(_, _, _, _)
FilterLoop(r, all, i, acc) ==
  IF i > Len(all) THEN acc
  ELSE FilterLoop(r, all, i + 1,
         IF MatchString(r, all[i].name) THEN Append(acc, all[i]) ELSE acc)

\* d.GetOk: a zero value counts as not set
GetOk(v) == Len(v) > 0

FilteredMemberServerImages(r, all) ==
  IF GetOk(r) THEN FilterLoop(r, all, 1, <<>>) ELSE all

NoResultsErr ==
  [kind |-> "noresults",
   text |-> <<"no results. please change search criteria and try again">>]

dataResourceIdHash(ids) == <<"hash", ids>>
flattenMemberServerImages(l) ==
  [i \in 1..Len(l) |-> [member_server_image_no |-> l[i].no,
                         member_server_image_name |-> l[i].name]]

\* memberServerImagesAttributes: SetId, Set, optional writeToFile
memberServerImagesAttributes(d, l) ==
  LET flat == flattenMemberServerImages(l) IN
  [id |-> dataResourceIdHash([i \in 1..Len(l) |-> l[i].no]),
   images |-> flat,
   file |-> IF cfg.outputFile # ""
            THEN [written |-> TRUE, path |-> cfg.outputFile, content |-> flat]
            ELSE d.file]

\* the test on the filtered list that yields the "no results" error
NoResultsNever(l) == FALSE
NoResults(l) == Len(l) < 1

dataSourceNcloudMemberServerImagesRead ==
  /\ pc = "ds_read"
  /\ \/ /\ Return([kind |-> "build", text |-> <<"parseRegionNoParameter">>])
        /\ UNCHANGED <<ds, calls>>
     \/ /\ calls' = Append(calls, "GetMemberServerImageList")
        /\ \/ /\ Return(VendorErr("GetMemberServerImageList", ApiErrorOther))
              /\ UNCHANGED ds
           \/ LET filtered == FilteredMemberServerImages(cfg.nameRegex,
                                                         cfg.allImages) IN
              IF NoResults(filtered)
              THEN /\ Return(NoResultsErr)
                   /\ UNCHANGED ds
              ELSE /\ ds' = memberServerImagesAttributes(ds, filtered)
                   /\ Return(NilErr)
  /\ UNCHANGED <<op, cfg, id, id0, attrs, inst, rt, resp, err,
                 c1, poller, timerFired, wait, hist>>

\* --------------------------------------------------- validateServerName
ServerNameMinLen == 3
ServerNameMaxLen == 30

\* the character class of serverNamePattern, [(A-Z|a-z|0-9|\\-|\\*)], as
\* the ranges of code points regexp compiles it to: "(", A-Z, "|", a-z,
\* 0-9, the range from backslash to "|", backslash, "*", ")"
ServerNameClass ==
  {<<40, 40>>, <<65, 90>>, <<124, 124>>, <<97, 122>>, <<48, 57>>,
   <<92, 124>>, <<92, 92>>, <<42, 42>>, <<41, 41>>}
InClass(c) == \E r \in ServerNameClass : r[1] <= Code(c) /\ Code(c) <= r[2]

\* serverNamePattern.MatchString: the class, once or more, anywhere
ServerNamePatternMatches(v) == \E i \in 1..Len(v) : InClass(v[i])

\* strings.LastIndex for a one-character substring, counting from zero
LastIndex(v, c) ==
  IF \E i \in 1..Len(v) : v[i] = c
  THEN (CHOOSE i \in 1..Len(v) :
          v[i] = c /\ \A j \in (i + 1)..Len(v) : v[j] # c) - 1
  ELSE -1

\* the errors validateServerName appends, in order
ServerNameErrors(v) ==
  (IF Len(v) < ServerNameMinLen \/ Len(v) > ServerNameMaxLen
   THEN <<"length">> ELSE <<>>)
  \o (IF ~ServerNamePatternMatches(v) \/ LastIndex(v, "-") = Len(v) - 1
      THEN <<"pattern">> ELSE <<>>)

validateServerName ==
  /\ pc = "validate"
  /\ Return([kind |-> "errors", text |-> ServerNameErrors(cfg.serverName)])
  /\ UNCHANGED <<ds, op, cfg, id, id0, attrs, inst, rt, resp, err, calls,
                 c1, poller, timerFired, wait, hist>>

\* ------------------------------------------------------- specification
Next ==
  \/ CreateBuild
  \/ CreateAttempt
  \/ CreateAfter
  \/ CreateWaited
  \/ RetryTimeout
  \/ WaitStart
  \/ PollerPoll
  \/ PollerSend
  \/ PollerWake
  \/ TimerFire
  \/ WaitReceive
  \/ WaitTimeout
  \/ resourceNcloudServerRead
  \/ UpdateStart
  \/ UpdateAttempt
  \/ UpdateAfter
  \/ DeleteFetch
  \/ DeleteStop
  \/ DeleteWaited
  \/ DeleteDetach
  \/ TerminateAttempt
  \/ TerminateAfter
  \/ dataSourceNcloudMemberServerImagesRead
  \/ validateServerName

Spec == Init /\ [][Next]_vars

\* the calling goroutine
MainStep ==
  \/ CreateBuild \/ CreateAttempt \/ CreateAfter \/ CreateWaited
  \/ WaitStart \/ WaitReceive \/ WaitTimeout
  \/ resourceNcloudServerRead
  \/ UpdateStart \/ UpdateAttempt \/ UpdateAfter
  \/ DeleteFetch \/ DeleteStop \/ DeleteWaited \/ DeleteDetach
  \/ TerminateAttempt \/ TerminateAfter
  \/ dataSourceNcloudMemberServerImagesRead
  \/ validateServerName

\* the poll goroutine
PollerStep == PollerPoll \/ PollerSend \/ PollerWake

\* Goroutines that can run do run, and timers that were started deliver
FairSpec ==
  /\ Spec
  /\ WF_vars(MainStep)
  /\ WF_vars(PollerStep)
  /\ WF_vars(TimerFire)
  /\ WF_vars(RetryTimeout)
\* ================================================================ claims

AfterPcs == {"create_after", "update_after", "terminate_after"}

AllowList(p) ==
  CASE p = "create_retry" -> CreateRetryCodes
    [] p = "update_retry" -> UpdateRetryCodes
    [] p = "terminate_retry" -> TerminateRetryCodes

\* an error answer that is not on the wrapper's allow-list, or an error
\* with no response at all
NotAllowListedError(p, out) ==
  /\ out.err # NilErr
  /\ ~out.resp.present \/ out.resp.code \notin AllowList(p)

\* C1: in each of the three retry wrappers an error answer whose return
\* code is not on the allow-list, or that comes with no response, ends the
\* retry with that one call, and the lifecycle function returns the error
\* to the host without any further vendor call.
C1_NonAllowListedErrorEndsRetry ==
  [][ /\ (pc \in RetryPcs /\ calls' # calls
          /\ NotAllowListedError(pc, hist'.last))
         => (pc' = AfterPc(pc) /\ err' = hist'.last.err)
      /\ (pc \in AfterPcs /\ err # NilErr)
         => (pc' = "done" /\ result' = err /\ calls' = calls) ]_vars

C1_Witness ==
  /\ op = "Update"
  /\ pc = "done"
  /\ result = VendorErr("ChangeServerInstanceSpec", "")
  /\ calls = <<"ChangeServerInstanceSpec">>

\* C2: waitForServerInstance returns nil only if some poll returned the
\* instance with a status code equal to the target status.
C2_NilOnlyIfTargetSeen ==
  (pc = "waited" /\ wait.res = NilErr) => hist.sawTarget

\* C3 as stated: the timeout error of waitForServerInstance names both
\* the resource id waited on and the target status waited for.
C3_TimeoutNamesIdAndStatus ==
  wait.res.kind = "timeout"
    => (wait.id \in Range(wait.res.text) /\ wait.status \in Range(wait.res.text))

\* C3 amended: when the caller leaves the select before the poller has
\* delivered, it receives the timeout error; that error names the
\* resource id waited on (and not the target status), and Create / Delete
\* return it as their result.
C3_TimeoutNamesId ==
  /\ (pc = "waited" /\ poller.sent = 0) => wait.res.kind = "timeout"
  /\ wait.res.kind = "timeout"
       => (wait.id \in Range(wait.res.text)
           /\ wait.status \notin Range(wait.res.text))
  /\ (pc = "done" /\ wait.res.kind = "timeout") => result = wait.res

C3_Witness ==
  /\ op = "Delete"
  /\ pc = "done"
  /\ result.kind = "timeout"
  /\ poller.sent = 0

\* C4: whenever resourceNcloudServerCreate returns without error, a poll
\* has observed the created instance with status code RUN.
C4_CreateSuccessOnlyIfSeenRunning ==
  (op = "Create" /\ pc = "done" /\ result = NilErr)
    => (wait.status = "RUN" /\ hist.sawTarget)

\* the filtered list is empty: a regex is given and matches no image
\* name, or no regex is given and the vendor returned no image
NothingSelected ==
  IF Len(cfg.nameRegex) > 0
  THEN \A i \in 1..Len(cfg.allImages) :
         ~MatchString(cfg.nameRegex, cfg.allImages[i].name)
  ELSE Len(cfg.allImages) = 0

\* C5: when the vendor list was fetched and the filtered list is empty,
\* dataSourceNcloudMemberServerImagesRead returns the "no results" error,
\* and then neither the id nor member_server_images is set and no output
\* file is written.
C5_EmptyResultIsError ==
  (op = "DataRead" /\ pc = "done" /\ result.kind \notin {"build", "vendor"})
    => /\ NothingSelected => result.kind = "noresults"
       /\ result.kind = "noresults"
            => (ds.id = <<>> /\ ds.images = <<>> /\ ~ds.file.written)

C5_Witness ==
  /\ op = "DataRead"
  /\ pc = "done"
  /\ Len(cfg.nameRegex) > 0
  /\ Len(cfg.allImages) = MaxImages
  /\ cfg.outputFile # ""
  /\ result.kind = "noresults"

\* C6: the poller sends at most one value and its send is never blocked
\* (the channel never holds more than its one slot); once
\* waitForServerInstance has returned, its outcome is the value the
\* poller sent or the timeout error, and it never changes afterwards.
C6_SingleSlotHandOff ==
  /\ [](poller.sent <= 1 /\ Len(c1) <= 1)
  /\ [](poller.pc = "send" => ENABLED PollerSend)
  /\ [](wait.res # Pending
          => \/ wait.res.kind = "timeout" /\ timerFired
             \/ wait.res = poller.val /\ poller.sent = 1 /\ c1 = <<>>)
  /\ [][wait.res # Pending => wait'.res = wait.res]_vars

C6_Witness ==
  /\ pc = "done"
  /\ wait.res.kind = "timeout"
  /\ poller.sent = 1
  /\ Len(c1) = 1

\* an allow-listed transient error answer of CreateServerInstances
TransientCreateError(out) ==
  /\ out.err # NilErr
  /\ out.resp.present
  /\ out.resp.code \in
       {ApiErrorUnknown, ApiErrorAuthorityParameter,
        ApiErrorServerObjectInOperation,
        ApiErrorPreviousServersHaveNotBeenEntirelyTerminated}

\* a successful answer of CreateServerInstances
CreateSucceeded(out) ==
  /\ out.err = NilErr
  /\ out.resp.present
  /\ out.resp.code = "0"
  /\ Len(out.resp.list) > 0

\* C7: in resourceNcloudServerCreate an allow-listed transient error is
\* not surfaced but retried, and a success that follows while the retry
\* window is open makes Create continue with that response: the id is set
\* from its first instance and the poll for RUN is started.
C7_TransientErrorsThenSuccess ==
  [][ /\ (pc = "create_retry" /\ calls' # calls
          /\ TransientCreateError(hist'.last))
         => (pc' = "create_retry" /\ result' = Pending /\ id' = id)
      /\ (pc = "create_retry" /\ calls' # calls
          /\ CreateSucceeded(hist'.last))
         => (pc' = "create_after" /\ err' = NilErr
             /\ resp' = hist'.last.resp)
      /\ (pc = "create_after" /\ err = NilErr /\ CreateSucceeded(hist.last))
         => (id' = hist.last.resp.list[1] /\ pc' = "wait_start"
             /\ wait'.id = id' /\ wait'.status = "RUN"
             /\ result' = Pending)
      /\ pc = "wait_start"
         => (pc' = "wait_select" /\ poller'.pc = "poll") ]_vars

C7_Witness ==
  /\ op = "Create"
  /\ pc = "wait_select"
  /\ rt.attempts = MaxAttempts - 1
  /\ calls[Len(calls)] = "GetServerInstanceList"
  /\ id \in Ids

\* the lifecycle call has ended: it returned to the host, or it crashed
\* in a nil dereference
Ended == pc \in {"done", "panic"}

\* C8: every lifecycle call ends, whatever the vendor answers, because
\* the retry loops and the select of waitForServerInstance are bounded by
\* their timeouts.
C8_EveryCallEnds == <>Ended

C8_Witness ==
  /\ op = "Delete"
  /\ pc = "done"
  /\ rt.attempts = MaxAttempts
  /\ poller.polls = MaxPolls
  /\ result = VendorErr("TerminateServerInstances", ApiErrorUnknown)

\* C9: a failed GetServerInstanceList poll is not retried: the poller
\* makes no further call, waitForServerInstance returns that error
\* unless the timeout has fired, and Create / Delete return it with no
\* vendor call after the failed poll.
C9_PollErrorIsTerminal ==
  /\ [][hist.pollErr # NilErr
          => (calls' = calls /\ poller'.pc \in {"send", "done"})]_vars
  /\ []((pc \in {"waited", "done"} /\ hist.pollErr # NilErr /\ ~timerFired)
          => wait.res = hist.pollErr)
  /\ []((pc = "done" /\ hist.pollErr # NilErr /\ ~timerFired)
          => (result = hist.pollErr /\ calls = hist.callsAtPollErr))

C9_Witness ==
  /\ op = "Create"
  /\ pc = "done"
  /\ hist.pollErr # NilErr
  /\ result = hist.pollErr
  /\ ~timerFired
  /\ poller.polls = 2

\* the step of resourceNcloudServerDelete whose error was returned
FailedStep ==
  CASE result.kind = "timeout" -> "wait"
    [] result.kind = "vendor" /\ result.text[1] = "GetServerInstanceList"
         -> IF poller.pc = "none" THEN "fetch" ELSE "wait"
    [] result.kind = "vendor" /\ result.text[1] = "StopServerInstances" -> "stop"
    [] result.kind = "vendor" /\ result.text[1] = "DetachBlockStorageInstances"
         -> "detach"
    [] OTHER -> "terminate"

\* the vendor calls that come after a step in the sequence fetch, stop,
\* poll, detach, terminate
LaterCalls(step) ==
  CASE step = "fetch" -> {"StopServerInstances", "DetachBlockStorageInstances",
                          "TerminateServerInstances"}
    [] step \in {"stop", "wait"} -> {"DetachBlockStorageInstances",
                                     "TerminateServerInstances"}
    [] step = "detach" -> {"TerminateServerInstances"}
    [] OTHER -> {}

\* C10: resourceNcloudServerDelete returns the error of the first step
\* that fails, issues no vendor call of a later step, and leaves the id
\* unchanged; the id is cleared only after TerminateServerInstances has
\* succeeded.
C10_DeleteAbortsAtFirstError ==
  /\ [](op = "Delete" =>
         \/ id = id0
         \/ /\ id = ""
            /\ pc = "done"
            /\ result = NilErr
            /\ calls[Len(calls)] = "TerminateServerInstances"
            /\ hist.last.err = NilErr)
  /\ []((op = "Delete" /\ pc = "done" /\ result # NilErr)
         => /\ Range(calls) \cap LaterCalls(FailedStep) = {}
            /\ FailedStep = "fetch" => calls = <<"GetServerInstanceList">>
            /\ FailedStep = "stop" => poller.pc = "none"
            /\ result.kind = "vendor" => calls[Len(calls)] = result.text[1])
  /\ [][op = "Delete" =>
         /\ (pc \in {"delete_fetch", "delete_stop", "delete_detach"}
             /\ calls' # calls /\ hist'.last.err # NilErr)
            => (pc' = "done" /\ result' = hist'.last.err)
         /\ (pc = "waited" /\ pc' # pc /\ wait.res # NilErr)
            => (pc' = "done" /\ result' = wait.res)
         /\ (pc = "terminate_after" /\ err # NilErr)
            => (pc' = "done" /\ result' = err) ]_vars

C10_Witness ==
  /\ op = "Delete"
  /\ pc = "done"
  /\ result = VendorErr("DetachBlockStorageInstances", ApiErrorOther)
  /\ poller.pc = "done"
  /\ id = id0

\* the resourceNcloudServerRead of this call fetched an instance
ReadFetched ==
  /\ pc = "done"
  /\ op \in {"Create", "Read", "Update"}
  /\ hist.read.present
  /\ result = NilErr

\* C11: after resourceNcloudServerRead of an instance whose remote tag
\* list is not empty, tag_list holds the flattened remote tags.
C11_ReadStoresTags ==
  (ReadFetched /\ Len(hist.read.tags) # 0)
    => attrs.tag_list = flattenInstanceTagList(hist.read.tags)

\* a letter, a digit or the hyphen
NameCharAllowed(c) ==
  \/ 65 <= Code(c) /\ Code(c) <= 90
  \/ 97 <= Code(c) /\ Code(c) <= 122
  \/ 48 <= Code(c) /\ Code(c) <= 57
  \/ c = "-"

\* composed only of letters, digits and hyphens, not ending with a
\* hyphen, 3 to 30 characters long
WellFormedServerName(v) ==
  /\ \A i \in 1..Len(v) : NameCharAllowed(v[i])
  /\ Len(v) >= 3 /\ Len(v) <= 30
  /\ v[Len(v)] # "-"

\* C12: validateServerName reports no error exactly for the names made of
\* letters, digits and hyphens that do not end with a hyphen and are 3 to
\* 30 characters long.
C12_NoErrorIffWellFormed ==
  (op = "Validate" /\ pc = "done")
    => (result.text = <<>> <=> WellFormedServerName(cfg.serverName))

\* the positions of the vendor list that the configuration selects
Selected ==
  {i \in 1..Len(cfg.allImages) :
     Len(cfg.nameRegex) > 0 => MatchString(cfg.nameRegex, cfg.allImages[i].name)}

\* the k-th selected position, counted in the vendor's order
NthSelected(k) ==
  CHOOSE i \in Selected : Cardinality({j \in Selected : j <= i}) = k

\* C13: after a successful dataSourceNcloudMemberServerImagesRead,
\* member_server_images holds the vendor's images whose name matches the
\* regex (all of them when no regex is set), each once and in the
\* vendor's order.
C13_ImagesAreTheMatchesInOrder ==
  (op = "DataRead" /\ pc = "done" /\ result = NilErr)
    => /\ Len(ds.images) = Cardinality(Selected)
       /\ \A k \in 1..Len(ds.images) :
            /\ ds.images[k].member_server_image_no
                 = cfg.allImages[NthSelected(k)].no
            /\ ds.images[k].member_server_image_name
                 = cfg.allImages[NthSelected(k)].name

C13_Witness ==
  /\ op = "DataRead"
  /\ pc = "done"
  /\ result = NilErr
  /\ Len(cfg.allImages) = MaxImages
  /\ Len(ds.images) = 1
  /\ ds.images[1].member_server_image_no = cfg.allImages[MaxImages].no
  /\ cfg.allImages[1].no # cfg.allImages[MaxImages].no

\* the vendor calls of resourceNcloudServerDelete occur in the order
\* fetch, optional stop, polls, detach, terminate
DeleteCallOrder ==
  \A i, j \in 1..Len(calls) :
    i < j =>
      /\ calls[j] = "StopServerInstances" => i = 1
      /\ calls[i] = "DetachBlockStorageInstances"
           => calls[j] = "TerminateServerInstances"
      /\ calls[i] = "TerminateServerInstances"
           => calls[j] = "TerminateServerInstances"

\* C14: in resourceNcloudServerDelete TerminateServerInstances is invoked
\* only after the instance was observed with status NSTOP, by the first
\* fetch or by a poll, and after the detach succeeded; the vendor calls
\* occur in the order fetch, optional stop, poll, detach, terminate.
C14_TerminateOnlyAfterStopped ==
  op = "Delete" =>
    /\ (Len(calls) > 0 => calls[1] = "GetServerInstanceList")
    /\ DeleteCallOrder
    /\ "TerminateServerInstances" \in Range(calls)
         => /\ "DetachBlockStorageInstances" \in Range(calls)
            /\ (inst.present /\ inst.status = "NSTOP") \/ hist.sawTarget

\* C15: resourceNcloudServerDelete does not crash when the first
\* GetServerInstanceList answers with an empty list; it returns nil or an
\* error.
C15_DeleteNeverCrashes ==
  op = "Delete" => pc # "panic"

\* the CreateServerInstances retry has ended with nil and a response that
\* carries the created instance, and Create has gone past it
CreateRetrySucceeded ==
  /\ pc \notin {"create_build", "create_retry", "create_after", "panic"}
  /\ err = NilErr
  /\ resp.present
  /\ Len(resp.list) > 0

\* C16: in resourceNcloudServerCreate the id is set exactly when the
\* CreateServerInstances retry has ended successfully; it is then the
\* first returned instance's number and stays so, also when the wait for
\* RUN times out or the final Read fails.
C16_IdSetIffCreateSucceeded ==
  /\ [](op = "Create" =>
          /\ id # "" <=> CreateRetrySucceeded
          /\ id # "" => id = resp.list[1])
  /\ [][(op = "Create" /\ id # "") => id' = id]_vars

C16_Witness ==
  /\ op = "Create"
  /\ pc = "done"
  /\ result.kind = "timeout"
  /\ id \in Ids
  /\ rt.attempts > 0

\* C17: once waitForServerInstance has returned on timeout, the poll
\* goroutine eventually stops.
C17_PollerEventuallyStops ==
  (wait.res.kind = "timeout") ~> (poller.pc = "done")

\* C18: when GetServerInstanceList returns no instance for the id,
\* resourceNcloudServerRead returns nil and leaves the id and every
\* attribute as they were.
C18_ReadOfMissingInstanceChangesNothing ==
  [][(pc = "read" /\ pc' = "done"
      /\ hist'.last.err = NilErr /\ ~hist'.read.present)
     => (result' = NilErr /\ id' = id /\ attrs' = attrs)]_vars

C18_Witness ==
  /\ op = "Read"
  /\ pc = "done"
  /\ hist.last.err = NilErr
  /\ ~hist.read.present
  /\ result = NilErr
  /\ id = id0
  /\ attrs = hist.attrs0
  /\ attrs.tag_list # <<>>

\* positions of resourceNcloudServerDelete behind a wait that was started
BehindStop ==
  {"wait_start", "wait_select", "waited", "delete_detach", "terminate_retry",
   "terminate_after"}

\* C19: for a fetched instance, resourceNcloudServerDelete calls
\* StopServerInstances and (the stop having succeeded) polls for NSTOP
\* exactly when the fetched status is not NSTOP; for an instance already
\* in NSTOP it goes to detach and terminate with no stop and no poll.
C19_StopIffNotStopped ==
  (op = "Delete" /\ inst.present) =>
    /\ pc = "delete_stop" => inst.status # "NSTOP"
    /\ pc # "delete_stop"
         => ("StopServerInstances" \in Range(calls) <=> inst.status # "NSTOP")
    /\ poller.pc # "none"
         => (inst.status # "NSTOP" /\ wait.status = "NSTOP"
             /\ "StopServerInstances" \in Range(calls))
    /\ (inst.status # "NSTOP"
        /\ \/ pc \in BehindStop \ {"wait_start"}
           \/ pc = "done" /\ result # VendorErr("StopServerInstances", ApiErrorOther))
         => poller.pc # "none"
    /\ inst.status = "NSTOP"
         => /\ poller.polls = 0
            /\ Len(calls) >= 2 => calls[2] = "DetachBlockStorageInstances"

C19_Witness ==
  /\ op = "Delete"
  /\ pc = "done"
  /\ inst.present
  /\ inst.status = "NSTOP"
  /\ result = NilErr
  /\ Len(calls) = 3

\* C20: resourceNcloudServerUpdate calls ChangeServerInstanceSpec exactly
\* when server_product_code has changed; without a change it issues only
\* the GetServerInstanceList of the Read refresh, and when the spec
\* change fails it returns the error without the Read refresh.
C20_ChangeSpecIffChanged ==
  op = "Update" =>
    /\ "ChangeServerInstanceSpec" \in Range(calls) => cfg.hasChange
    /\ (cfg.hasChange /\ pc \notin {"update_start", "update_retry"})
         => calls[1] = "ChangeServerInstanceSpec"
    /\ ~cfg.hasChange => Range(calls) \subseteq {"GetServerInstanceList"}
    /\ (pc = "done" /\ err # NilErr)
         => /\ result = err
            /\ "GetServerInstanceList" \notin Range(calls)
            /\ attrs = hist.attrs0
    /\ (pc = "done" /\ err = NilErr)
         => /\ calls[Len(calls)] = "GetServerInstanceList"
            /\ Cardinality({i \in 1..Len(calls) :
                              calls[i] = "GetServerInstanceList"}) = 1

C20_Witness ==
  /\ op = "Update"
  /\ pc = "done"
  /\ cfg.hasChange
  /\ rt.attempts > 0
  /\ result = VendorErr("ChangeServerInstanceSpec", ApiErrorOther)
  /\ Len(calls) = rt.attempts + 1
====
